---- MODULE Spec2Model ----
(***************************************************************************)
(* Model of the appointment backend in src/backend/index.js: the Doctor    *)
(* and Appointment collections, the request handlers of the Express app    *)
(* (one step per await, so that concurrent requests interleave exactly     *)
(* where the event loop lets them) and the missed-appointment sweeper.     *)
(*                                                                         *)
(* Time.  A Date is a number of ticks.  A calendar day has SlotsPerDay     *)
(* slot strings ("HH:MM"), a slot string covers TicksPerSlot ticks (the    *)
(* seconds and milliseconds that slice(0, 5) cuts off); the grace period   *)
(* of 15 minutes is one slot string long.  The server is                   *)
(* taken to run in UTC, so that `new Date(date + "T" + time)` and          *)
(* toISOString() agree on the day and the time of day.                     *)
(*                                                                         *)
(* Mongoose.  save() writes the modified paths only.  A save that $sets an *)
(* array (availableSlots) carries the document version __v in its filter   *)
(* and increments it; a save that $pushes onto schedule only increments    *)
(* it.  A handler whose Doctor document was read before another handler's  *)
(* array write therefore fails its own array $set with a VersionError.     *)
(* The model keeps, instead of the number __v, one flag per handler:       *)
(* `stale` is true iff __v moved since the handler read the document.      *)
(***************************************************************************)
EXTENDS Integers, Sequences, FiniteSets, TLC

\* ------------------------------------------------------------ bounds
MaxAppointments == 2   \* appointments ever booked
MaxSchedule == 2       \* DaySchedule entries per doctor
MaxNow == 5            \* last tick of the clock

\* 15 * 60 * 1000 ms, in ticks
gracePeriod == 2

Doctors == {"D1", "D2"}
Handlers == {"h1", "h2"}

\* the calendar: two days of two slot strings ("HH:MM") each, a slot string
\* standing for two ticks
Days == {0, 1}
Slots == {0, 1}
SlotTicks == {0, 1}
NumDays == Cardinality(Days)
SlotsPerDay == Cardinality(Slots)
TicksPerSlot == Cardinality(SlotTicks)
TicksPerDay == SlotsPerDay * TicksPerSlot
Times == 0 .. (NumDays * TicksPerDay - 1)
AppointmentIds == 1 .. MaxAppointments

\* ------------------------------------------------------------ dates
\* new Date(appointmentTime).toISOString().split('T')[0]
appointmentDate(t) == t \div TicksPerDay

\* new Date(appointmentTime).toISOString().split('T')[1].slice(0, 5)
slotTime(t) == (t % TicksPerDay) \div TicksPerSlot

\* new Date(`${newSlot.date}T${newSlot.time}`)
newSlotDate(newSlot) == newSlot.date * TicksPerDay + newSlot.time * TicksPerSlot

\* ------------------------------------------------------------ documents
NoDoctor == [present |-> FALSE, schedule |-> << >>]
NoAppointment == [doctorId |-> "", appointmentTime |-> 0, status |-> ""]
NoRequest == [op |-> "none"]
NoLocals == [doctorId |-> "", doctor |-> << >>, stale |-> FALSE,
             appointment |-> NoAppointment]
NoStore == [doctors |-> [d \in Doctors |-> NoDoctor], appointments |-> << >>]
NoSweep == [appointments |-> << >>, now |-> 0, alone |-> TRUE]

DaySchedules == [date : Days, availableSlots : SUBSET Slots]

RECURSIVE SeqsUpTo(_, _)
SeqsUpTo(S, n) ==
    IF n = 0 THEN {<< >>}
    ELSE LET shorter == SeqsUpTo(S, n - 1)
         IN shorter \cup {Append(s, x) : s \in {q \in shorter : Len(q) = n - 1}, x \in S}

Schedules == SeqsUpTo(DaySchedules, MaxSchedule)

VARIABLES
    doctors,        \* Doctor collection: doctorId -> document
    appointments,   \* Appointment collection in insertion order; _id = index
    now,            \* the clock read by new Date()
    pc,             \* handler -> the await it is suspended at
    req,            \* handler -> the request it serves
    loc,            \* handler -> the documents it holds in memory
    res,            \* handler -> the response it sent
    pre,            \* handler -> the collections when its request arrived (history)
    sweepPc,        \* checkMissedAppointments: idle, saving, done
    pending,        \* _ids whose save() in the forEach has not yet written
    sweepPre        \* the appointments and the clock at the sweep's find (history)

vars == <<doctors, appointments, now, pc, req, loc, res, pre, sweepPc, pending, sweepPre>>

sweeper == <<sweepPc, pending, sweepPre>>

\* ------------------------------------------------------------ array helpers
\* Array.prototype.findIndex on doctor.schedule by calendar day; 0 when absent
\* (Array.prototype.find returns the element at this index)
RECURSIVE findIndexFrom(_, _, _)
findIndexFrom(schedule, date, i) ==
    IF i > Len(schedule) THEN 0
    ELSE IF schedule[i].date = date THEN i
    ELSE findIndexFrom(schedule, date, i + 1)

findIndex(schedule, date) == findIndexFrom(schedule, date, 1)

\* mutant: the includes() test forgotten
scheduleFound(schedule, date, slot) ==
    findIndex(schedule, date) # 0

\* availableSlots.includes(slot) on the entry found for the date
slotAvailable(schedule, date, slot) ==
    LET i == findIndex(schedule, date)
    IN i # 0 /\ slot \in schedule[i].availableSlots

\* mutant: the filter's test inverted (s === slot)
filterSlotInverted(schedule, i, slot) ==
    [schedule EXCEPT ![i].availableSlots = @ \cap {slot}]

\* availableSlots.filter(s => s !== slot) on entry i
filterSlot(schedule, i, slot) ==
    [schedule EXCEPT ![i].availableSlots = @ \ {slot}]

\* ------------------------------------------------------------ handler plumbing
\* a request arrives at an idle handler
Arrive(p, request, first) ==
    /\ pc[p] = "idle"
    /\ pc' = [pc EXCEPT ![p] = first]
    /\ req' = [req EXCEPT ![p] = request]
    /\ res' = [res EXCEPT ![p] = "none"]
    /\ pre' = [pre EXCEPT ![p] = [doctors |-> doctors, appointments |-> appointments]]
    /\ UNCHANGED <<doctors, appointments, now, loc, sweeper>>

\* res.status(..).send(message): the handler is done
Respond(p, message) ==
    /\ pc' = [pc EXCEPT ![p] = "done"]
    /\ res' = [res EXCEPT ![p] = message]

\* the locals with handler p's replaced by l, and, when p's write moved the
\* version of doctor d, every other in-memory copy of d marked stale
Locals(p, l, d) ==
    [q \in Handlers |->
        IF q = p THEN l
        ELSE IF loc[q].doctorId = d /\ d # "" THEN [loc[q] EXCEPT !.stale = TRUE]
        ELSE loc[q]]

\* a handler writes an appointment: a sweep that has done its find is no longer
\* the only writer since then (history)
Disturbed ==
    /\ sweepPre' = IF sweepPc = "idle" THEN sweepPre ELSE [sweepPre EXCEPT !.alone = FALSE]
    /\ UNCHANGED <<sweepPc, pending>>

\* the response is delivered and the handler's memory is released
Return(p) ==
    /\ pc[p] = "done"
    /\ pc' = [pc EXCEPT ![p] = "idle"]
    /\ req' = [req EXCEPT ![p] = NoRequest]
    /\ res' = [res EXCEPT ![p] = "none"]
    /\ loc' = [loc EXCEPT ![p] = NoLocals]
    /\ pre' = [pre EXCEPT ![p] = NoStore]
    /\ UNCHANGED <<doctors, appointments, now, sweeper>>

InFlight(op) == {p \in Handlers : req[p].op = op /\ pc[p] # "done"}

\* ------------------------------------------------------------ POST /add-doctor
UpdatesInFlight(d) ==
    {p \in Handlers : req[p].op = "update-slots" /\ req[p].doctorId = d /\ pc[p] # "done"}

\* new Doctor(req.body); await doctor.save().  The handler reads nothing before
\* its one write, so the request takes effect in one step.  doctorId is unique:
\* a second insert of the same id throws (500).
AddDoctor(p, d, schedule) ==
    /\ pc[p] = "idle"
    /\ Len(schedule) + Cardinality(UpdatesInFlight(d)) <= MaxSchedule
    /\ req' = [req EXCEPT ![p] = [op |-> "add-doctor", doctorId |-> d]]
    /\ pre' = [pre EXCEPT ![p] = [doctors |-> doctors, appointments |-> appointments]]
    /\ IF doctors[d].present
       THEN /\ Respond(p, "Error adding doctor")
            /\ UNCHANGED doctors
       ELSE /\ doctors' = [doctors EXCEPT ![d] =
                              [present |-> TRUE, schedule |-> schedule]]
            /\ Respond(p, "Doctor added successfully")
    /\ UNCHANGED <<appointments, now, loc, sweeper>>

\* ------------------------------------------------------------ POST /book-appointment
BookAppointment(p, d, t) ==
    /\ Len(appointments) + Cardinality(InFlight("book")) < MaxAppointments
    /\ Arrive(p, [op |-> "book", doctorId |-> d, appointmentTime |-> t],
              "book_findDoctor")

\* await Doctor.findOne({ doctorId }), then the synchronous slot check
BookFindDoctor(p) ==
    /\ pc[p] = "book_findDoctor"
    /\ LET doctor == doctors[req[p].doctorId]
           t == req[p].appointmentTime
       IN IF ~doctor.present
          THEN Respond(p, "Doctor not found") /\ UNCHANGED loc
          ELSE IF ~slotAvailable(doctor.schedule, appointmentDate(t), slotTime(t))
          THEN Respond(p, "Slot not available") /\ UNCHANGED loc
          ELSE /\ pc' = [pc EXCEPT ![p] = "book_saveAppointment"]
               /\ loc' = [loc EXCEPT ![p] = [NoLocals EXCEPT
                              !.doctorId = req[p].doctorId,
                              !.doctor = doctor.schedule]]
               /\ UNCHANGED res
    /\ UNCHANGED <<doctors, appointments, now, req, pre, sweeper>>

\* new Appointment({...}) with the schema's default status
newAppointment(doctorId, appointmentTime) ==
    [doctorId |-> doctorId, appointmentTime |-> appointmentTime, status |-> "Scheduled"]

\* await appointment.save()
BookSaveAppointment(p) ==
    /\ pc[p] = "book_saveAppointment"
    /\ appointments' = Append(appointments,
                              newAppointment(req[p].doctorId, req[p].appointmentTime))
    /\ pc' = [pc EXCEPT ![p] = "book_saveDoctor"]
    /\ Disturbed
    /\ UNCHANGED <<doctors, now, req, loc, res, pre>>

\* schedule.availableSlots = schedule.availableSlots.filter(...); await doctor.save()
BookSaveDoctor(p) ==
    /\ pc[p] = "book_saveDoctor"
    /\ LET d == loc[p].doctorId
           t == req[p].appointmentTime
           i == findIndex(loc[p].doctor, appointmentDate(t))
       IN IF loc[p].stale
          THEN /\ Respond(p, "Error booking appointment")
               /\ UNCHANGED <<doctors, loc>>
          ELSE /\ doctors' = [doctors EXCEPT ![d].schedule =
                                 filterSlot(loc[p].doctor, i, slotTime(t))]
               /\ loc' = Locals(p, loc[p], d)
               /\ Respond(p, "Appointment booked successfully")
    /\ UNCHANGED <<appointments, now, req, pre, sweeper>>

\* ------------------------------------------------------------ PUT /update-slots/:doctorId
UpdateSlots(p, d, date, newSlots) ==
    /\ \/ findIndex(doctors[d].schedule, date) # 0
       \/ Len(doctors[d].schedule) + Cardinality(UpdatesInFlight(d)) < MaxSchedule
    /\ Arrive(p, [op |-> "update-slots", doctorId |-> d, date |-> date,
                  newSlots |-> newSlots], "update_findDoctor")

\* await Doctor.findOne({ doctorId })
UpdateFindDoctor(p) ==
    /\ pc[p] = "update_findDoctor"
    /\ LET doctor == doctors[req[p].doctorId]
       IN IF ~doctor.present
          THEN Respond(p, "Doctor not found") /\ UNCHANGED loc
          ELSE /\ pc' = [pc EXCEPT ![p] = "update_saveDoctor"]
               /\ loc' = [loc EXCEPT ![p] = [NoLocals EXCEPT
                              !.doctorId = req[p].doctorId,
                              !.doctor = doctor.schedule]]
               /\ UNCHANGED res
    /\ UNCHANGED <<doctors, appointments, now, req, pre, sweeper>>

\* doctor.schedule.push({...}) or schedule.availableSlots = newSlots; await doctor.save().
\* The push is sent as $push (the version is incremented, not compared); the
\* assignment is sent as a $set of the array at the index read (the version is
\* compared and incremented); an assignment of an equal array modifies nothing.
UpdateSaveDoctor(p) ==
    /\ pc[p] = "update_saveDoctor"
    /\ LET d == loc[p].doctorId
           i == findIndex(loc[p].doctor, req[p].date)
       IN IF i = 0
          THEN /\ doctors' = [doctors EXCEPT ![d].schedule =
                                 Append(@, [date |-> req[p].date,
                                            availableSlots |-> req[p].newSlots])]
               /\ loc' = Locals(p, loc[p], d)
               /\ Respond(p, "Slots updated successfully")
          ELSE IF loc[p].doctor[i].availableSlots = req[p].newSlots
          THEN /\ Respond(p, "Slots updated successfully")
               /\ UNCHANGED <<doctors, loc>>
          ELSE IF loc[p].stale
          THEN /\ Respond(p, "Error updating slots")
               /\ UNCHANGED <<doctors, loc>>
          ELSE /\ doctors' = [doctors EXCEPT ![d].schedule =
                                 [loc[p].doctor EXCEPT ![i].availableSlots = req[p].newSlots]]
               /\ loc' = Locals(p, loc[p], d)
               /\ Respond(p, "Slots updated successfully")
    /\ UNCHANGED <<appointments, now, req, pre, sweeper>>

\* ------------------------------------------------------------ POST /reschedule
Reschedule(p, d, id, newSlot) ==
    Arrive(p, [op |-> "reschedule", doctorId |-> d, appointmentId |-> id,
               newSlot |-> newSlot], "preventDoubleBooking")

\* mutant: the query without its doctorId
overlappingAnyDoctor(doctorId, newSlot) ==
    \E i \in 1 .. Len(appointments) :
        appointments[i].appointmentTime = newSlotDate(newSlot)

\* Appointment.findOne({ doctorId, appointmentTime }) with the body's doctorId
overlappingAppointment(doctorId, newSlot) ==
    \E i \in 1 .. Len(appointments) :
        /\ appointments[i].doctorId = doctorId
        /\ appointments[i].appointmentTime = newSlotDate(newSlot)

\* the middleware: runs before the handler looks the appointment up
preventDoubleBooking(p) ==
    /\ pc[p] = "preventDoubleBooking"
    /\ IF overlappingAppointment(req[p].doctorId, req[p].newSlot)
       THEN Respond(p, "Slot already booked")
       ELSE pc' = [pc EXCEPT ![p] = "reschedule_findAppointment"] /\ UNCHANGED res
    /\ UNCHANGED <<doctors, appointments, now, req, loc, pre, sweeper>>

\* await Appointment.findById(appointmentId)
RescheduleFindAppointment(p) ==
    /\ pc[p] = "reschedule_findAppointment"
    /\ IF req[p].appointmentId \notin 1 .. Len(appointments)
       THEN Respond(p, "Appointment not found") /\ UNCHANGED loc
       ELSE /\ pc' = [pc EXCEPT ![p] = "reschedule_findDoctor"]
            /\ loc' = [loc EXCEPT ![p] = [NoLocals EXCEPT
                           !.appointment = appointments[req[p].appointmentId]]]
            /\ UNCHANGED res
    /\ UNCHANGED <<doctors, appointments, now, req, pre, sweeper>>

\* mutant: the status written is the schema's default
rescheduledAsScheduled(stored, read, newSlot) ==
    [stored EXCEPT
        !.status = "Scheduled",
        !.appointmentTime = newSlotDate(newSlot)]

\* appointment.status = 'Rescheduled'; appointment.appointmentTime = ...: the
\* document as save() leaves it in the collection.  Only the paths whose value
\* differs from the one read are written.
rescheduled(stored, read, newSlot) ==
    [stored EXCEPT
        !.status = IF read.status # "Rescheduled" THEN "Rescheduled" ELSE @,
        !.appointmentTime = IF read.appointmentTime # newSlotDate(newSlot)
                            THEN newSlotDate(newSlot) ELSE @]

\* mutant: the appointment is updated and saved before the slot is checked
RescheduleFindDoctorAfterSave(p) ==
    /\ pc[p] = "reschedule_findDoctor"
    /\ LET d == loc[p].appointment.doctorId
           doctor == doctors[d]
           newSlot == req[p].newSlot
       IN /\ appointments' = [appointments EXCEPT ![req[p].appointmentId] =
                                 rescheduled(@, loc[p].appointment, newSlot)]
          /\ IF ~doctor.present
             THEN Respond(p, "Doctor not found") /\ UNCHANGED loc
             ELSE IF ~slotAvailable(doctor.schedule, newSlot.date, newSlot.time)
             THEN Respond(p, "Slot not available") /\ UNCHANGED loc
             ELSE /\ pc' = [pc EXCEPT ![p] = "reschedule_saveAppointment"]
                  /\ loc' = [loc EXCEPT ![p].doctorId = d, ![p].doctor = doctor.schedule]
                  /\ UNCHANGED res
    /\ UNCHANGED <<doctors, now, req, pre, sweeper>>

\* await Doctor.findOne({ doctorId: appointment.doctorId }), then the slot check
RescheduleFindDoctor(p) ==
    /\ pc[p] = "reschedule_findDoctor"
    /\ LET d == loc[p].appointment.doctorId
           doctor == doctors[d]
           newSlot == req[p].newSlot
       IN IF ~doctor.present
          THEN Respond(p, "Doctor not found") /\ UNCHANGED loc
          ELSE IF ~slotAvailable(doctor.schedule, newSlot.date, newSlot.time)
          THEN Respond(p, "Slot not available") /\ UNCHANGED loc
          ELSE /\ pc' = [pc EXCEPT ![p] = "reschedule_saveAppointment"]
               /\ loc' = [loc EXCEPT ![p].doctorId = d, ![p].doctor = doctor.schedule]
               /\ UNCHANGED res
    /\ UNCHANGED <<doctors, appointments, now, req, pre, sweeper>>

\* await appointment.save()
RescheduleSaveAppointment(p) ==
    /\ pc[p] = "reschedule_saveAppointment"
    /\ appointments' = [appointments EXCEPT ![req[p].appointmentId] =
                           rescheduled(@, loc[p].appointment, req[p].newSlot)]
    /\ pc' = [pc EXCEPT ![p] = "reschedule_saveDoctor"]
    /\ Disturbed
    /\ UNCHANGED <<doctors, now, req, loc, res, pre>>

\* doctor.schedule[slotIndex].availableSlots = ...filter(...); await doctor.save()
RescheduleSaveDoctor(p) ==
    /\ pc[p] = "reschedule_saveDoctor"
    /\ LET d == loc[p].doctorId
           newSlot == req[p].newSlot
           slotIndex == findIndex(loc[p].doctor, newSlot.date)
       IN IF loc[p].stale
          THEN /\ Respond(p, "Error rescheduling appointment")
               /\ UNCHANGED <<doctors, loc>>
          ELSE /\ doctors' = [doctors EXCEPT ![d].schedule =
                                 filterSlot(loc[p].doctor, slotIndex, newSlot.time)]
               /\ loc' = Locals(p, loc[p], d)
               /\ pc' = [pc EXCEPT ![p] = "reschedule_sendMail"]
               /\ UNCHANGED res
    /\ UNCHANGED <<appointments, now, req, pre, sweeper>>

\* mutant: a failed send undoes the reschedule
RescheduleSendMailRollback(p) ==
    /\ pc[p] = "reschedule_sendMail"
    /\ \E error \in BOOLEAN :
          IF error
          THEN /\ Respond(p, "Error notifying patient")
               /\ appointments' = pre[p].appointments
               /\ doctors' = pre[p].doctors
          ELSE /\ Respond(p, "Appointment rescheduled and patient notified")
               /\ UNCHANGED <<doctors, appointments>>
    /\ UNCHANGED <<now, req, loc, pre, sweeper>>

\* transporter.sendMail(mailOptions, callback): the callback answers either way
RescheduleSendMail(p) ==
    /\ pc[p] = "reschedule_sendMail"
    /\ \E error \in BOOLEAN :
          IF error THEN Respond(p, "Error notifying patient")
          ELSE Respond(p, "Appointment rescheduled and patient notified")
    /\ UNCHANGED <<doctors, appointments, now, req, loc, pre, sweeper>>

\* ------------------------------------------------------------ store failures
\* the message of the catch block of the request's handler
catchMessage(op) ==
    IF op = "book" THEN "Error booking appointment"
    ELSE IF op = "update-slots" THEN "Error updating slots"
    ELSE "Error rescheduling appointment"

\* an awaited save() rejects (the store is down, the write times out): nothing
\* is written, the catch block answers 500.  What the handler wrote before
\* stays written: no catch block undoes anything.
StoreFailure(p) ==
    /\ pc[p] \in {"book_saveAppointment", "book_saveDoctor", "update_saveDoctor",
                  "reschedule_saveAppointment", "reschedule_saveDoctor"}
    /\ Respond(p, catchMessage(req[p].op))
    /\ UNCHANGED <<doctors, appointments, now, req, loc, pre, sweeper>>

\* ------------------------------------------------------------ checkMissedAppointments
\* mutant: $lt in place of $lte
missedStrictly(apps, clock) ==
    {i \in 1 .. Len(apps) :
        /\ apps[i].status \in {"Scheduled", "Rescheduled"}
        /\ apps[i].appointmentTime < clock - gracePeriod}

\* mutant: the query without its $or on the status
missedAnyStatus(apps, clock) ==
    {i \in 1 .. Len(apps) : apps[i].appointmentTime <= clock - gracePeriod}

\* Appointment.find({ $or: [Scheduled, Rescheduled], appointmentTime: { $lte: now - grace } })
missedAppointments(apps, clock) ==
    {i \in 1 .. Len(apps) :
        /\ apps[i].status \in {"Scheduled", "Rescheduled"}
        /\ apps[i].appointmentTime <= clock - gracePeriod}

\* the timer fires: const now = new Date(); await Appointment.find(...); the
\* forEach then starts one save() per document found.  A tick starts only when
\* the saves of the tick before have written (the period is a minute).
SweepFind ==
    /\ sweepPc = "idle"
    /\ pending' = missedAppointments(appointments, now)
    /\ sweepPc' = IF pending' = {} THEN "done" ELSE "saving"
    /\ sweepPre' = [appointments |-> appointments, now |-> now, alone |-> TRUE]
    /\ UNCHANGED <<doctors, appointments, now, pc, req, loc, res, pre>>

\* mutant: the save of a missed appointment puts its slot back on the schedule
SweepSaveReleasing(i) ==
    /\ sweepPc = "saving"
    /\ i \in pending
    /\ appointments' = [appointments EXCEPT ![i].status = "Missed"]
    /\ pending' = pending \ {i}
    /\ sweepPc' = IF pending' = {} THEN "done" ELSE "saving"
    /\ LET d == appointments[i].doctorId
           t == appointments[i].appointmentTime
           k == findIndex(doctors[d].schedule, appointmentDate(t))
       IN doctors' = IF k = 0 THEN doctors
                     ELSE [doctors EXCEPT ![d].schedule[k].availableSlots =
                              @ \cup {slotTime(t)}]
    /\ UNCHANGED <<now, pc, req, loc, res, pre, sweepPre>>

\* mutant: the status is assigned in memory and the save never reaches the store
SweepSaveDropped(i) ==
    /\ sweepPc = "saving"
    /\ i \in pending
    /\ pending' = pending \ {i}
    /\ sweepPc' = IF pending' = {} THEN "done" ELSE "saving"
    /\ UNCHANGED <<doctors, appointments, now, pc, req, loc, res, pre, sweepPre>>

\* appointment.status = 'Missed'; await appointment.save(): $set of status alone
SweepSave(i) ==
    /\ sweepPc = "saving"
    /\ i \in pending
    /\ appointments' = [appointments EXCEPT ![i].status = "Missed"]
    /\ pending' = pending \ {i}
    /\ sweepPc' = IF pending' = {} THEN "done" ELSE "saving"
    /\ UNCHANGED <<doctors, now, pc, req, loc, res, pre, sweepPre>>

\* every save of the tick has written; the sweeper waits for the next tick
SweepReturn ==
    /\ sweepPc = "done"
    /\ sweepPc' = "idle"
    /\ sweepPre' = NoSweep
    /\ UNCHANGED <<doctors, appointments, now, pc, req, loc, res, pre, pending>>

\* time passes
Tick ==
    /\ now < MaxNow
    /\ now' = now + 1
    /\ UNCHANGED <<doctors, appointments, pc, req, loc, res, pre, sweeper>>

\* ------------------------------------------------------------ specification
Init ==
    /\ doctors = [d \in Doctors |-> NoDoctor]
    /\ appointments = << >>
    /\ now = 0
    /\ pc = [p \in Handlers |-> "idle"]
    /\ req = [p \in Handlers |-> NoRequest]
    /\ loc = [p \in Handlers |-> NoLocals]
    /\ res = [p \in Handlers |-> "none"]
    /\ pre = [p \in Handlers |-> NoStore]
    /\ sweepPc = "idle"
    /\ pending = {}
    /\ sweepPre = NoSweep

\* every handler but p is idle and the sweeper is idle
Alone(p) ==
    /\ \A q \in Handlers \ {p} : pc[q] = "idle"
    /\ sweepPc = "idle"

HandleBook(p) ==
    \/ BookFindDoctor(p)
    \/ BookSaveAppointment(p)
    \/ BookSaveDoctor(p)

HandleUpdate(p) ==
    \/ UpdateFindDoctor(p)
    \/ UpdateSaveDoctor(p)

HandleReschedule(p) ==
    \/ preventDoubleBooking(p)
    \/ RescheduleFindAppointment(p)
    \/ RescheduleFindDoctor(p)
    \/ RescheduleSaveAppointment(p)
    \/ RescheduleSaveDoctor(p)
    \/ RescheduleSendMail(p)

NewSlots == [date : Days, time : Slots]

\* a Doctor collection that POST /add-doctor can have built
DoctorDocuments == {NoDoctor} \cup {[present |-> TRUE, schedule |-> s] : s \in Schedules}

Quiet ==
    /\ appointments = << >>
    /\ now = 0
    /\ pc = [p \in Handlers |-> "idle"]
    /\ req = [p \in Handlers |-> NoRequest]
    /\ loc = [p \in Handlers |-> NoLocals]
    /\ res = [p \in Handlers |-> "none"]
    /\ pre = [p \in Handlers |-> NoStore]
    /\ sweepPc = "idle"
    /\ pending = {}
    /\ sweepPre = NoSweep

\* bookings and reschedules, one request at a time, on any Doctor collection
\* every day listed once, in order, with every slot free
FullSchedule == [i \in 1 .. NumDays |-> [date |-> i - 1, availableSlots |-> Slots]]

\* the Doctor collections the runs start from: the first doctor is absent or
\* has any schedule of up to two entries (entries of one date twice included),
\* the second is absent or lists one slot (a handler reads and writes the one
\* Doctor document of its request)
SeedDoctors ==
    {ds \in [Doctors -> DoctorDocuments] :
        /\ Len(ds["D1"].schedule) <= 2
        /\ ds["D2"] \in {NoDoctor,
                          [present |-> TRUE,
                           schedule |-> <<[date |-> 1, availableSlots |-> {1}]>>]}}

InitSeq ==
    /\ doctors \in SeedDoctors
    /\ Quiet

NextSeq ==
    \/ \E d \in Doctors, t \in Times : Alone("h1") /\ BookAppointment("h1", d, t)
    \/ \E d \in Doctors, id \in AppointmentIds, ns \in NewSlots :
          Alone("h1") /\ Reschedule("h1", d, id, ns)
    \/ HandleBook("h1")
    \/ HandleReschedule("h1")
    \/ Return("h1")

SpecSeq == InitSeq /\ [][NextSeq]_vars

\* the first doctor with every slot free, the second absent
InitOneDoctor ==
    /\ doctors = [d \in Doctors |->
                    IF d = "D1" THEN [present |-> TRUE, schedule |-> FullSchedule]
                    ELSE NoDoctor]
    /\ Quiet

\* the times and the slots of the first day
FirstDayTimes == 0 .. (TicksPerDay - 1)
FirstDaySlots == [date : {0}, time : Slots]

\* two handlers serving, at once, bookings and reschedules of the first doctor's
\* first day
NextConc ==
    \/ \E p \in Handlers, t \in FirstDayTimes : BookAppointment(p, "D1", t)
    \/ \E p \in Handlers, d \in Doctors, id \in AppointmentIds, ns \in FirstDaySlots :
          Reschedule(p, d, id, ns)
    \/ \E p \in Handlers : HandleBook(p) \/ HandleReschedule(p) \/ Return(p)

SpecConc == InitOneDoctor /\ [][NextConc]_vars

\* one handler serving bookings of the first doctor and reschedules onto the
\* first day while the sweeper runs and time passes
NextSweep ==
    \/ \E t \in Times : BookAppointment("h1", "D1", t)
    \/ \E id \in AppointmentIds, ns \in FirstDaySlots : Reschedule("h1", "D1", id, ns)
    \/ HandleBook("h1")
    \/ HandleReschedule("h1")
    \/ Return("h1")
    \/ SweepFind
    \/ \E i \in AppointmentIds : SweepSave(i)
    \/ SweepReturn
    \/ Tick

SpecSweep == InitOneDoctor /\ [][NextSweep]_vars

\* a fair sweeper: setInterval keeps firing, and every find and every save of
\* a tick completes.  Requests and the clock are under no obligation.
SweeperFair ==
    /\ WF_vars(SweepFind)
    /\ \A i \in AppointmentIds : WF_vars(SweepSave(i))
    /\ WF_vars(SweepReturn)

\* bookings and reschedules of the first day only
NextSweepFair ==
    \/ \E t \in FirstDayTimes : BookAppointment("h1", "D1", t)
    \/ \E id \in AppointmentIds, ns \in FirstDaySlots : Reschedule("h1", "D1", id, ns)
    \/ HandleBook("h1")
    \/ HandleReschedule("h1")
    \/ Return("h1")
    \/ SweepFind
    \/ \E i \in AppointmentIds : SweepSave(i)
    \/ SweepReturn
    \/ Tick

SpecSweepFair == InitOneDoctor /\ [][NextSweepFair]_vars /\ SweeperFair

\* one request at a time on the first doctor, with a store that may reject any
\* save
NextFail ==
    \/ \E t \in Times : Alone("h1") /\ BookAppointment("h1", "D1", t)
    \/ \E id \in AppointmentIds, ns \in NewSlots :
          Alone("h1") /\ Reschedule("h1", "D1", id, ns)
    \/ HandleBook("h1")
    \/ HandleReschedule("h1")
    \/ StoreFailure("h1")
    \/ Return("h1")

SpecFail == InitOneDoctor /\ [][NextFail]_vars

\* the administrative requests on the first doctor, two at a time, from the
\* empty collections; a day is given its first slot or every slot
AdminSlots == {{0}, Slots}
AdminSchedules == SeqsUpTo([date : Days, availableSlots : AdminSlots], MaxSchedule)

NextAdmin ==
    \/ \E p \in Handlers, s \in AdminSchedules : AddDoctor(p, "D1", s)
    \/ \E p \in Handlers, date \in Days, ns \in AdminSlots :
          UpdateSlots(p, "D1", date, ns)
    \/ \E p \in Handlers : HandleUpdate(p) \/ Return(p)

SpecAdmin == Init /\ [][NextAdmin]_vars

\* the whole system: both handlers serving every kind of request while the
\* sweeper runs and time passes.  SpecSeq, SpecConc and SpecSweep are this
\* system with fewer requests admitted, started from a Doctor collection that
\* POST /add-doctor builds.
Next ==
    \/ \E p \in Handlers, d \in Doctors, s \in Schedules : AddDoctor(p, d, s)
    \/ \E p \in Handlers, d \in Doctors, date \in Days, ns \in SUBSET Slots :
          UpdateSlots(p, d, date, ns)
    \/ \E p \in Handlers, d \in Doctors, t \in Times : BookAppointment(p, d, t)
    \/ \E p \in Handlers, d \in Doctors, id \in AppointmentIds, ns \in NewSlots :
          Reschedule(p, d, id, ns)
    \/ \E p \in Handlers :
          HandleUpdate(p) \/ HandleBook(p) \/ HandleReschedule(p) \/ Return(p)
    \/ \E p \in Handlers : StoreFailure(p)
    \/ SweepFind
    \/ \E i \in AppointmentIds : SweepSave(i)
    \/ SweepReturn
    \/ Tick

Spec == Init /\ [][Next]_vars

\* ------------------------------------------------------------ vocabulary of the claims
\* the DaySchedule entry the handlers use for a date: the first one listed
EntryFor(schedule, date) ==
    LET I == {i \in 1 .. Len(schedule) : schedule[i].date = date}
    IN IF I = {} THEN 0 ELSE CHOOSE i \in I : \A j \in I : i <= j

\* the slot is in the available set of the doctor's entry for the date
Free(ds, d, date, time) ==
    /\ ds[d].present
    /\ EntryFor(ds[d].schedule, date) # 0
    /\ time \in ds[d].schedule[EntryFor(ds[d].schedule, date)].availableSlots

RECURSIVE SlotCount(_)
SlotCount(schedule) ==
    IF schedule = << >> THEN 0
    ELSE Cardinality(Head(schedule).availableSlots) + SlotCount(Tail(schedule))

Day(t) == t \div (SlotsPerDay * TicksPerSlot)
TimeOfDay(t) == (t % (SlotsPerDay * TicksPerSlot)) \div TicksPerSlot
Timestamp(date, time) == (date * SlotsPerDay + time) * TicksPerSlot

Answered(p, op) == pc[p] = "done" /\ req[p].op = op
Unchanged(p) == doctors = pre[p].doctors /\ appointments = pre[p].appointments

\* ------------------------------------------------------------ claims on one request at a time
\* C4 (as stated): a successful Reschedule to a different slot makes the old slot
\* available again, so the doctor's number of available slots is what it was.
C4_RescheduleReleasesOldSlot ==
    \A p \in Handlers :
        (/\ Answered(p, "reschedule")
         /\ res[p] = "Appointment rescheduled and patient notified")
        => LET old == pre[p].appointments[req[p].appointmentId]
               d == old.doctorId
           IN old.appointmentTime # Timestamp(req[p].newSlot.date, req[p].newSlot.time)
              => /\ Free(doctors, d, Day(old.appointmentTime), TimeOfDay(old.appointmentTime))
                 /\ SlotCount(doctors[d].schedule) = SlotCount(pre[p].doctors[d].schedule)

\* C5: a successful Book, run alone, appends one Scheduled appointment with the
\* doctor and the time asked for, removes that time of day from the entry of that
\* date, and changes nothing else.
C5_BookEffect ==
    \A p \in Handlers :
        (Answered(p, "book") /\ res[p] = "Appointment booked successfully")
        => LET d == req[p].doctorId
               t == req[p].appointmentTime
               i == EntryFor(pre[p].doctors[d].schedule, Day(t))
           IN /\ appointments = pre[p].appointments \o
                     <<[doctorId |-> d, appointmentTime |-> t, status |-> "Scheduled"]>>
              /\ Free(pre[p].doctors, d, Day(t), TimeOfDay(t))
              /\ \A e \in Doctors \ {d} : doctors[e] = pre[p].doctors[e]
              /\ doctors[d].present
              /\ Len(doctors[d].schedule) = Len(pre[p].doctors[d].schedule)
              /\ \A j \in 1 .. Len(doctors[d].schedule) :
                    /\ doctors[d].schedule[j].date = pre[p].doctors[d].schedule[j].date
                    /\ doctors[d].schedule[j].availableSlots =
                          IF j = i
                          THEN pre[p].doctors[d].schedule[j].availableSlots \ {TimeOfDay(t)}
                          ELSE pre[p].doctors[d].schedule[j].availableSlots

\* a Book succeeded on a doctor with two entries while the other doctor exists,
\* at a time that is not the start of its slot
C5_Witness ==
    \E p \in Handlers :
        /\ Answered(p, "book") /\ res[p] = "Appointment booked successfully"
        /\ Len(pre[p].doctors[req[p].doctorId].schedule) = 2
        /\ \A d \in Doctors : doctors[d].present
        /\ req[p].appointmentTime % TicksPerSlot # 0
        /\ Len(appointments) = 2

\* C8: a Book whose slot is not in the available set, or whose doctor has no
\* entry for the date, answers 'Slot not available' and changes nothing.
C8_BookUnavailable ==
    \A p \in Handlers :
        (/\ Answered(p, "book")
         /\ pre[p].doctors[req[p].doctorId].present
         /\ ~Free(pre[p].doctors, req[p].doctorId, Day(req[p].appointmentTime),
                  TimeOfDay(req[p].appointmentTime)))
        => res[p] = "Slot not available" /\ Unchanged(p)

\* both cases: no entry for the date, and an entry without the slot
C8_Witness ==
    /\ Answered("h1", "book")
    /\ res["h1"] = "Slot not available"
    /\ EntryFor(doctors[req["h1"].doctorId].schedule, Day(req["h1"].appointmentTime)) # 0
    /\ Len(appointments) = 1

\* C9: a Reschedule answered 'Slot not available' or 'Slot already booked' has
\* changed no appointment and no schedule.
C9_RescheduleFailureNoMutation ==
    \A p \in Handlers :
        (/\ Answered(p, "reschedule")
         /\ res[p] \in {"Slot not available", "Slot already booked"})
        => Unchanged(p)

\* a Reschedule of an existing appointment to a slot that is not free
C9_Witness ==
    \E p \in Handlers :
        /\ Answered(p, "reschedule")
        /\ res[p] = "Slot not available"
        /\ req[p].appointmentId <= Len(appointments)
        /\ doctors[appointments[req[p].appointmentId].doctorId].schedule # << >>

Active(a) == a.status \in {"Scheduled", "Rescheduled"}
NoRequestInFlight == \A p \in Handlers : pc[p] \in {"idle", "done"}

\* C1 (as stated, at the states where no request is in flight): no time of day
\* is both in a doctor's available set for a date and occupied by an active
\* appointment of that doctor on that date.
C1_AvailableDisjointFromActive ==
    NoRequestInFlight
    => \A d \in Doctors, i \in 1 .. Len(appointments) :
          (Active(appointments[i]) /\ appointments[i].doctorId = d)
          => ~Free(doctors, d, Day(appointments[i].appointmentTime),
                   TimeOfDay(appointments[i].appointmentTime))

\* C2 (as stated): of two Book requests for the same doctor and time that both
\* arrived while the slot was available, one is answered 'Appointment booked
\* successfully', the other 'Slot not available', and one appointment is created.
C2_ExactlyOneBookSucceeds ==
    \A p, q \in Handlers :
        (/\ p # q
         /\ Answered(p, "book") /\ Answered(q, "book")
         /\ req[p].doctorId = req[q].doctorId
         /\ req[p].appointmentTime = req[q].appointmentTime
         /\ \A h \in {p, q} :
               Free(pre[h].doctors, req[h].doctorId, Day(req[h].appointmentTime),
                    TimeOfDay(req[h].appointmentTime)))
        => /\ {res[p], res[q]} = {"Appointment booked successfully", "Slot not available"}
           /\ Cardinality({i \in 1 .. Len(appointments) :
                    /\ i > Len(pre[p].appointments) \/ i > Len(pre[q].appointments)
                    /\ appointments[i].doctorId = req[p].doctorId
                    /\ appointments[i].appointmentTime = req[p].appointmentTime}) = 1

\* C3 (as stated): no two distinct active appointments have the same doctor and
\* the same appointment timestamp.
C3_NoDoubleBooking ==
    \A i, j \in 1 .. Len(appointments) :
        (/\ i # j
         /\ Active(appointments[i]) /\ Active(appointments[j])
         /\ appointments[i].doctorId = appointments[j].doctorId)
        => appointments[i].appointmentTime # appointments[j].appointmentTime

C7_SweepEffect ==
    (sweepPc = "done" /\ sweepPre.alone)
    => /\ Len(appointments) = Len(sweepPre.appointments)
       /\ \A i \in 1 .. Len(appointments) :
             LET a == sweepPre.appointments[i]
             IN appointments[i] =
                  IF Active(a) /\ a.appointmentTime + gracePeriod <= sweepPre.now
                  THEN [a EXCEPT !.status = "Missed"]
                  ELSE a

\* a completed tick that marked an appointment exactly one grace period old
\* (a Rescheduled one) and left a younger one alone
C7_Witness ==
    /\ sweepPc = "done" /\ sweepPre.alone
    /\ \E i, j \in 1 .. Len(appointments) :
          /\ sweepPre.appointments[i].status = "Rescheduled"
          /\ sweepPre.appointments[i].appointmentTime + gracePeriod = sweepPre.now
          /\ appointments[i].status = "Missed"
          /\ sweepPre.appointments[j].appointmentTime + gracePeriod > sweepPre.now
          /\ appointments[j].status = "Scheduled"

\* ------------------------------------------------------------ claims on store failures
\* C11 (as stated): a Book or a Reschedule answered with the error of a failed
\* save has left the Doctor and the Appointment collections as they were when
\* the request arrived.
C11_FailureCompensated ==
    \A p \in Handlers :
        (/\ pc[p] = "done"
         /\ res[p] \in {"Error booking appointment", "Error rescheduling appointment"})
        => Unchanged(p)

\* C12: a Reschedule answered 'Error notifying patient' has left the same state
\* as one answered with success: the appointment is Rescheduled at the new
\* timestamp, the new slot is removed from the entry of its date, and nothing
\* else differs from the state at arrival.
C12_MailFailureKeepsReschedule ==
    \A p \in Handlers :
        (/\ Answered(p, "reschedule")
         /\ res[p] \in {"Error notifying patient",
                        "Appointment rescheduled and patient notified"})
        => LET id == req[p].appointmentId
               ns == req[p].newSlot
               d == pre[p].appointments[id].doctorId
               i == EntryFor(pre[p].doctors[d].schedule, ns.date)
           IN /\ appointments = [pre[p].appointments EXCEPT ![id] =
                     [doctorId |-> d, appointmentTime |-> Timestamp(ns.date, ns.time),
                      status |-> "Rescheduled"]]
              /\ ~Free(doctors, d, ns.date, ns.time)
              /\ doctors = [pre[p].doctors EXCEPT ![d].schedule[i].availableSlots =
                               @ \ {ns.time}]

\* the send failed after a Scheduled appointment was moved to another slot
C12_Witness ==
    \E p \in Handlers :
        /\ Answered(p, "reschedule")
        /\ res[p] = "Error notifying patient"
        /\ pre[p].appointments[req[p].appointmentId].status = "Scheduled"
        /\ pre[p].appointments[req[p].appointmentId].appointmentTime #
              Timestamp(req[p].newSlot.date, req[p].newSlot.time)
        /\ appointments[req[p].appointmentId].status = "Rescheduled"

\* ------------------------------------------------------------ claims on the sweeper and requests together
\* C13 (as stated): whatever the interleaving of a sweep tick and a Reschedule
\* of the same appointment, no appointment is Missed while its appointmentTime
\* is later than now minus the grace period (no serial order of the two leaves
\* such a document).
C13_NoMissedWithLaterTime ==
    \A i \in 1 .. Len(appointments) :
        appointments[i].status = "Missed"
        => appointments[i].appointmentTime + gracePeriod <= now

\* C14 (as stated): two Book requests for two different slots of one doctor and
\* date, both arrived while both slots were available, are both answered with
\* success, and neither slot is available afterwards.
C14_BothBooksSucceed ==
    \A p, q \in Handlers :
        (/\ p # q
         /\ Answered(p, "book") /\ Answered(q, "book")
         /\ req[p].doctorId = req[q].doctorId
         /\ Day(req[p].appointmentTime) = Day(req[q].appointmentTime)
         /\ TimeOfDay(req[p].appointmentTime) # TimeOfDay(req[q].appointmentTime)
         /\ \A h, k \in {p, q} :
               Free(pre[h].doctors, req[k].doctorId, Day(req[k].appointmentTime),
                    TimeOfDay(req[k].appointmentTime)))
        => /\ res[p] = "Appointment booked successfully"
           /\ res[q] = "Appointment booked successfully"
           /\ \A h \in {p, q} :
                 ~Free(doctors, req[h].doctorId, Day(req[h].appointmentTime),
                       TimeOfDay(req[h].appointmentTime))

\* C15: no step of the sweeper (the find that starts a tick, a save of the tick,
\* the end of the tick) changes the Doctor collection.
C15_SweepKeepsSchedules ==
    [][<<sweepPc, pending>>' # <<sweepPc, pending>> => doctors' = doctors]_vars

\* a tick has marked a booked appointment Missed and its slot is still off the
\* schedule
C15_Witness ==
    /\ sweepPc = "done"
    /\ \E i \in 1 .. Len(appointments) :
          /\ i <= Len(sweepPre.appointments)
          /\ Active(sweepPre.appointments[i])
          /\ appointments[i].status = "Missed"
          /\ doctors[appointments[i].doctorId].present
          /\ ~Free(doctors, appointments[i].doctorId,
                   Day(appointments[i].appointmentTime),
                   TimeOfDay(appointments[i].appointmentTime))

\* C16: when a sweep tick has made all its saves and no handler wrote an
\* appointment meanwhile, the find of a second tick at the same now selects no
\* appointment, so that the second tick makes no save and changes nothing.
C16_SecondSweepSelectsNothing ==
    /\ [](sweepPc = "done" /\ sweepPre.alone /\ now = sweepPre.now
           => missedAppointments(appointments, now) = {})
    /\ [][(/\ sweepPc = "idle" /\ sweepPc' # "idle"
            /\ missedAppointments(appointments, now) = {})
           => /\ sweepPc' = "done" /\ pending' = {}
              /\ appointments' = appointments /\ doctors' = doctors]_vars

\* a completed tick that marked two appointments, with the clock where it was
C16_Witness ==
    /\ sweepPc = "done" /\ sweepPre.alone /\ now = sweepPre.now
    /\ Len(sweepPre.appointments) = 2
    /\ \A i \in 1 .. 2 :
          /\ Active(sweepPre.appointments[i])
          /\ appointments[i].status = "Missed"

\* ------------------------------------------------------------ claims on the conflict guard
\* C17 (as stated): a Reschedule of an existing appointment is answered 'Slot
\* already booked' exactly when another appointment of the same doctor (the
\* doctor of the appointment being rescheduled) stands at the new timestamp.
C17_GuardTripsOnOtherOfSameDoctor ==
    \A p \in Handlers :
        (Answered(p, "reschedule") /\ req[p].appointmentId <= Len(pre[p].appointments))
        => LET id == req[p].appointmentId
               apps == pre[p].appointments
           IN res[p] = "Slot already booked"
              <=> \E i \in 1 .. Len(apps) :
                     /\ i # id
                     /\ apps[i].doctorId = apps[id].doctorId
                     /\ apps[i].appointmentTime =
                           Timestamp(req[p].newSlot.date, req[p].newSlot.time)

\* ------------------------------------------------------------ claims on the schedules
\* C18 (as stated): no doctor has two DaySchedule entries for one date.
C18_OneEntryPerDate ==
    \A d \in Doctors :
        \A i, j \in 1 .. Len(doctors[d].schedule) :
            i # j => doctors[d].schedule[i].date # doctors[d].schedule[j].date

\* ------------------------------------------------------------ claims on progress
\* C19: under a fair sweeper, an appointment that is Scheduled or Rescheduled
\* with appointmentTime <= now - grace is eventually Missed, or has been moved
\* by a Reschedule to a time later than now - grace.
C19_StaleEventuallyMissed ==
    \A i \in AppointmentIds :
        (/\ i <= Len(appointments)
         /\ Active(appointments[i])
         /\ appointments[i].appointmentTime + gracePeriod <= now)
        ~> (/\ i <= Len(appointments)
            /\ \/ appointments[i].status = "Missed"
               \/ appointments[i].appointmentTime + gracePeriod > now)

\* between two ticks: one appointment has been marked Missed, another is still
\* within its grace period
C19_Witness ==
    /\ sweepPc = "idle"
    /\ \E i, j \in 1 .. Len(appointments) :
          /\ appointments[i].status = "Missed"
          /\ appointments[i].appointmentTime + gracePeriod <= now
          /\ Active(appointments[j])
          /\ appointments[j].appointmentTime + gracePeriod > now
====
